---- MODULE Spec2Model ----
(***************************************************************************)
(* A model of the spring property calculator (springs.py, units.py).      *)
(*                                                                         *)
(* The program is a client that constructs Material and Spring objects     *)
(* and calls their methods.  The state is the heap of Material objects,    *)
(* the Spring object the client holds, what the last call returned or      *)
(* raised, and what it printed.                                            *)
(*                                                                         *)
(* Numbers.  The program computes in Python floats (IEEE-754 binary64).    *)
(* TLC has 32-bit integers only, so a float is modelled as a binary        *)
(* floating-point number with a Prec-bit significand instead of 53 bits:   *)
(* a record [m, e] standing for m * 2^e, with m = 0 or                     *)
(* 2^(Prec-1) <= |m| < 2^Prec.  +, -, *, / round to nearest, ties to even, *)
(* as IEEE-754 prescribes; pow, atan2 and cos round the way a libm does.   *)
(* The exponent is unbounded: overflow, underflow, infinities, NaN and the *)
(* sign of zero are outside the model.                                     *)
(***************************************************************************)
EXTENDS Integers, Sequences, FiniteSets, TLC

\* Bits of the significand of a float of the model (53 in binary64).
Prec == 6

\* Bound on the number of Material objects the client constructs.
MaxMaterials == 1

-----------------------------------------------------------------------------
(* Floating-point arithmetic                                               *)

Abs(n) == IF n < 0 THEN 0 - n ELSE n

Sign(n) == IF n < 0 THEN 0 - 1 ELSE IF n = 0 THEN 0 ELSE 1

RECURSIVE BitLen(_)
BitLen(n) == IF n = 0 THEN 0 ELSE 1 + BitLen(n \div 2)

Zero == [m |-> 0, e |-> 0]

\* The float nearest to sgn * (n + t) * 2^e, where 0 < t < 1 if sticky and
\* t = 0 otherwise (round to nearest, ties to even).  n >= 0; when sticky,
\* n has at least Prec + 1 bits.
Norm(sgn, n0, e, sticky) ==
  LET n == n0
      L == BitLen(n)
  IN  IF n = 0 THEN Zero
      ELSE IF L <= Prec
           THEN [m |-> sgn * n * 2^(Prec - L), e |-> e - (Prec - L)]
           ELSE LET k    == L - Prec
                    q    == n \div 2^k
                    r    == n % 2^k
                    half == 2^(k - 1)
                    up   == r > half \/ (r = half /\ (sticky \/ q % 2 = 1))
                    q1   == IF up THEN q + 1 ELSE q
                IN  IF q1 = 2^Prec
                    THEN [m |-> sgn * 2^(Prec - 1), e |-> e + k + 1]
                    ELSE [m |-> sgn * q1, e |-> e + k]

FNeg(a) == [m |-> 0 - a.m, e |-> a.e]

FAbs(a) == [m |-> Abs(a.m), e |-> a.e]

FAdd(a0, b0) ==
  LET a    == a0
      b    == b0
      hi   == IF a.e >= b.e THEN a ELSE b
      lo   == IF a.e >= b.e THEN b ELSE a
      diff == hi.e - lo.e
      s    == hi.m * 2^diff + lo.m
  IN  IF a.m = 0 THEN b
      ELSE IF b.m = 0 THEN a
      ELSE IF diff > Prec + 2
           THEN hi    \* |lo| is below an eighth of the last place of hi
           ELSE Norm(Sign(s), Abs(s), lo.e, FALSE)

FSub(a, b) == FAdd(a, FNeg(b))

FMul(a0, b0) ==
  LET a == a0
      b == b0
  IN  Norm(Sign(a.m) * Sign(b.m), Abs(a.m) * Abs(b.m), a.e + b.e, FALSE)

\* a / b for b # 0: the quotient to Prec + 2 bits, the remainder as sticky.
FDiv(a0, b0) ==
  LET a == a0
      b == b0
      n == Abs(a.m) * 2^(Prec + 2)
      d == Abs(b.m)
  IN  Norm(Sign(a.m) * Sign(b.m), n \div d, a.e - b.e - (Prec + 2), n % d # 0)

\* Rounding does not change the sign of an exact difference.
FLt(a, b) == FSub(a, b).m < 0

FLe(a, b) == FSub(a, b).m <= 0

IsZero(a) == a.m = 0

\* The float nearest to p / q, by long division (0 < p < 2^30, 0 < q < 2^30).
RECURSIVE DivBits(_, _, _, _)
DivBits(rem, q, acc, left) ==
  IF left = 0 THEN <<acc, rem>>
  ELSE IF 2 * rem >= q
       THEN DivBits(2 * rem - q, q, 2 * acc + 1, left - 1)
       ELSE DivBits(2 * rem, q, 2 * acc, left - 1)

RECURSIVE ScaleUp(_, _, _)
\* <<x * 2^k, k>> for the least k with x * 2^k >= y
ScaleUp(x, y, k) == IF x >= y THEN <<x, k>> ELSE ScaleUp(2 * x, y, k + 1)

RECURSIVE ScaleDown(_, _, _)
\* <<y * 2^k, k>> for the greatest k with y * 2^k <= x   (y <= x)
ScaleDown(x, y, k) == IF 2 * y > x THEN <<y, k>> ELSE ScaleDown(x, 2 * y, k + 1)

Ratio(p, q) ==
  IF p = 0 THEN Zero
  ELSE LET up   == IF p < q THEN ScaleUp(p, q, 0) ELSE <<p, 0>>
           dn   == IF p < q THEN <<q, 0>> ELSE ScaleDown(p, q, 0)
           \* up[1] / dn[1] is in [1, 2)
           bits == DivBits(up[1] - dn[1], dn[1], 1, Prec + 1)
       IN  Norm(1, bits[1], dn[2] - up[2] - (Prec + 1), bits[2] # 0)

\* The float of the decimal literal mant * 10^exp10.
Dec(mant, exp10) ==
  IF mant < 0 THEN FNeg(IF exp10 >= 0 THEN Ratio((0 - mant) * 10^exp10, 1)
                                       ELSE Ratio(0 - mant, 10^(0 - exp10)))
  ELSE IF exp10 >= 0 THEN Ratio(mant * 10^exp10, 1)
                     ELSE Ratio(mant, 10^(0 - exp10))

\* float(n) of an integer n
Float(n) == Dec(n, 0)

\* pow(x, n) for n = 3.0 or 4: the exact power, rounded once.
PowInt(x0, n) ==
  LET x == x0
  IN  Norm(IF n % 2 = 0 THEN 1 ELSE Sign(x.m), Abs(x.m)^n, x.e * n, FALSE)

RECURSIVE IsqrtStep(_, _, _)
IsqrtStep(n, r, bit) ==
  IF bit = 0 THEN r
  ELSE IF (r + bit) * (r + bit) <= n
       THEN IsqrtStep(n, r + bit, bit \div 2)
       ELSE IsqrtStep(n, r, bit \div 2)

\* The integer square root of n, 0 <= n < 2^30.
Isqrt(n) == IsqrtStep(n, 0, 2^14)

\* pow(x, 0.25) for x > 0: the float nearest to the fourth root.  The
\* significand is scaled to n = m * 2^s with 4 * Prec - 3 .. 4 * Prec bits and
\* s = x.e modulo 4, so that the root r = floor(n^(1/4)) has Prec bits; it is
\* rounded up when n >= (r + 1/2)^4, that is n > A^2 + A / 2 for A = r^2 + r.
Root4(x) ==
  LET base == 3 * Prec - 3
      s    == base + ((x.e - base) % 4)
      n    == x.m * 2^s
      r    == Isqrt(Isqrt(n))
      A    == r * r + r
      r1   == IF n >= A * A + (A \div 2) + 1 THEN r + 1 ELSE r
  IN  Norm(1, r1, (x.e - s) \div 4, FALSE)

\* Fixed point with 14 fractional bits, the working precision of atan2 and cos.
One14 == 2^14

Pi14 == (355 * One14) \div 113

HalfPi14 == (355 * One14) \div 226

QuarterPi14 == (355 * One14) \div 452

MulQ(a, b) == (a * b) \div One14

\* atan(z) for 0 <= z <= tan(pi / 8): z - z^3/3 + z^5/5 - z^7/7 + z^9/9
AtanSeries(z) ==
  LET w  == MulQ(z, z)
      t7 == (One14 \div 7) - MulQ(w, One14 \div 9)
      t5 == (One14 \div 5) - MulQ(w, t7)
      t3 == (One14 \div 3) - MulQ(w, t5)
  IN  MulQ(z, One14 - MulQ(w, t3))

\* atan(t) for 0 <= t <= 1; above tan(pi / 8) by pi / 4 - atan((1 - t) / (1 + t))
AtanQ(t) ==
  IF t <= (One14 * 29) \div 70
  THEN AtanSeries(t)
  ELSE QuarterPi14 - AtanSeries(((One14 - t) * One14) \div (One14 + t))

\* floor(a / b * 2^14) for floats 0 <= a <= b, 0 < b
RatioQ(a, b) ==
  LET s == 14 + a.e - b.e
  IN  IF a.m = 0 THEN 0
      ELSE IF s >= 0 THEN (a.m * 2^s) \div b.m
      ELSE IF 0 - s > Prec THEN 0
      ELSE a.m \div (b.m * 2^(0 - s))

\* math.atan2(y, x)
atan2(y0, x0) ==
  LET y   == y0
      x   == x0
      ay  == FAbs(y)
      ax  == FAbs(x)
      sgn == IF y.m < 0 THEN 0 - 1 ELSE 1
  IN  IF IsZero(x) /\ IsZero(y) THEN Zero
      ELSE IF FLe(ay, ax)
           THEN LET tq == RatioQ(ay, ax)
                IN  IF x.m > 0 /\ tq < 2^10
                    THEN \* atan(t) = t to the precision of the model
                         IF sgn < 0 THEN FNeg(FDiv(ay, ax)) ELSE FDiv(ay, ax)
                    ELSE Norm(sgn, IF x.m > 0 THEN AtanQ(tq) ELSE Pi14 - AtanQ(tq),
                              0 - 14, FALSE)
           ELSE LET a == HalfPi14 - AtanQ(RatioQ(ax, ay))
                IN  Norm(sgn, IF x.m >= 0 THEN a ELSE Pi14 - a, 0 - 14, FALSE)

\* cos(z) for 0 <= z <= pi / 4: 1 - z^2/2 + z^4/24 - z^6/720
CosSeries(z) ==
  LET w  == MulQ(z, z)
      t2 == One14 - MulQ(w \div 12, One14 - (w \div 30))
  IN  One14 - MulQ(w \div 2, t2)

\* sin(z) for 0 <= z <= pi / 4: z - z^3/6 + z^5/120 - z^7/5040
SinSeries(z) ==
  LET w  == MulQ(z, z)
      t2 == One14 - MulQ(w \div 20, One14 - (w \div 42))
  IN  MulQ(z, One14 - MulQ(w \div 6, t2))

\* |a| * 2^14 for a float a with |a| < 2^16
ToQ(a) ==
  LET s == a.e + 14
  IN  IF a.m = 0 THEN 0
      ELSE IF s >= 0 THEN Abs(a.m) * 2^s
      ELSE IF 0 - s > Prec THEN 0
      ELSE Abs(a.m) \div 2^(0 - s)

\* math.cos(a) for |a| <= pi.  As in binary64, the float nearest to pi / 2 is
\* not pi / 2, and its cosine is small but not zero.
cos(a) ==
  LET z == ToQ(a)
  IN  IF z <= QuarterPi14 THEN Norm(1, CosSeries(z), 0 - 14, FALSE)
      ELSE IF z <= 3 * QuarterPi14
           THEN Norm(Sign(HalfPi14 - z), SinSeries(Abs(HalfPi14 - z)), 0 - 14, FALSE)
           ELSE Norm(0 - 1, CosSeries(Abs(Pi14 - z)), 0 - 14, FALSE)

-----------------------------------------------------------------------------
(* units.py                                                                *)

inch == Dec(254, 0 - 4)           \* 0.0254

ksi == Dec(689475909, 0 - 2)      \* 6.89475908677537e6, to nine digits

psi == Dec(689475729, 0 - 5)      \* 6894.75729

lb == Dec(453592, 0 - 6)          \* 0.453592

lbf == Dec(444822, 0 - 5)         \* 4.44822

\* math.pi, to nine digits
pi == Dec(314159265, 0 - 8)

-----------------------------------------------------------------------------
(* Strings are sequences of characters; str.lower maps A-Z to a-z.         *)

UpperCase == <<"A", "B", "C", "D", "E", "F", "G", "H", "I", "J", "K", "L", "M",
               "N", "O", "P", "Q", "R", "S", "T", "U", "V", "W", "X", "Y", "Z">>

LowerCase == <<"a", "b", "c", "d", "e", "f", "g", "h", "i", "j", "k", "l", "m",
               "n", "o", "p", "q", "r", "s", "t", "u", "v", "w", "x", "y", "z">>

LowerChar(c) ==
  IF \E i \in 1..26 : UpperCase[i] = c
  THEN LowerCase[CHOOSE i \in 1..26 : UpperCase[i] = c]
  ELSE c

lower(str) == [i \in 1..Len(str) |-> LowerChar(str[i])]

-----------------------------------------------------------------------------
(* What an expression or a call comes to: a float, None, a new object, a   *)
(* bound method (an attribute read without the call), or an exception.     *)

Ret(v) == [kind |-> "return", val |-> v, exc |-> "none"]

None == [kind |-> "None", val |-> Zero, exc |-> "none"]

Object == [kind |-> "object", val |-> Zero, exc |-> "none"]

Method == [kind |-> "method", val |-> Zero, exc |-> "none"]

Raise(x) == [kind |-> "raise", val |-> Zero, exc |-> x]

Raises(a) == a.kind = "raise"

\* a binary operation on two evaluated operands, the left one first
Lift(Op(_, _), a, b) ==
  LET x == a
      y == b
  IN  IF Raises(x) THEN x ELSE IF Raises(y) THEN y ELSE Ret(Op(x.val, y.val))

Add(a, b) == Lift(FAdd, a, b)

Sub(a, b) == Lift(FSub, a, b)

Mul(a, b) == Lift(FMul, a, b)

\* float division raises ZeroDivisionError on a zero divisor
Div(a, b) ==
  LET x == a
      y == b
  IN  IF Raises(x) THEN x
      ELSE IF Raises(y) THEN y
      ELSE IF IsZero(y.val) THEN Raise("ZeroDivisionError")
      ELSE Ret(FDiv(x.val, y.val))

\* pow(a, 3.0), math.pow(a, 4)
Pow(a, n) ==
  LET x == a
  IN  IF Raises(x) THEN x ELSE Ret(PowInt(x.val, n))

\* pow(a, 0.25): Python 2 raises ValueError for a negative base
PowQuarter(a) ==
  LET x == a
  IN  IF Raises(x) THEN x
      ELSE IF x.val.m < 0 THEN Raise("ValueError")
      ELSE IF x.val.m = 0 THEN Ret(Zero)
      ELSE Ret(Root4(x.val))

Lit(n) == Ret(Float(n))

-----------------------------------------------------------------------------
(* class Material                                                          *)

STEEL == <<"s", "t", "e", "e", "l">>

MaterialAttrs == {"youngs_modulus", "poisson_ratio", "density"}

\* The object Material.__init__ leaves behind.  For a name other than steel
\* it prints a message and sets no attribute.
MaterialInit(material) ==
  IF lower(material) = STEEL
  THEN [attrs          |-> MaterialAttrs,
        youngs_modulus |-> FMul(Dec(29, 6), psi),
        poisson_ratio  |-> Dec(3, 0 - 1),
        density        |-> FDiv(FMul(Dec(284, 0 - 3), lb), PowInt(inch, 3))]
  ELSE [attrs          |-> {},
        youngs_modulus |-> Zero,
        poisson_ratio  |-> Zero,
        density        |-> Zero]

MaterialInitPrints(material) ==
  IF lower(material) = STEEL
  THEN << >>
  ELSE <<[text |-> "I am not sure about that material", val |-> Zero]>>

\* self.<attr>: AttributeError when __init__ did not set it
GetAttr(obj, attr) ==
  IF attr \in obj.attrs THEN Ret(obj[attr]) ELSE Raise("AttributeError")

shear_modulus(mat) ==
  Div(GetAttr(mat, "youngs_modulus"),
      Mul(Lit(2), Add(Lit(1), GetAttr(mat, "poisson_ratio"))))

-----------------------------------------------------------------------------
(* The state                                                               *)

VARIABLES
  materials,   \* the Material objects constructed so far, in order
  spring,      \* the Spring object the client holds (NoSpring before the first)
  last,        \* the last call: its operation, arguments and outcome
  stdout,      \* the lines the last call printed
  design,      \* history: the last solve_diameter call that returned
  memo         \* history: an earlier call on an object that still exists

vars == <<materials, spring, last, stdout, design, memo>>

-----------------------------------------------------------------------------
(* class Spring                                                            *)

NoSpring ==
  [exists |-> FALSE, mean_diameter |-> Zero, wire_diameter |-> Zero,
   free_length |-> Zero, num_coils |-> Zero, material |-> 0]

\* Spring.__init__ stores float() of each number and the material reference.
\* It checks nothing.
SpringInit(mean_diameter, wire_diameter, free_length, num_coils, material) ==
  [exists        |-> TRUE,
   mean_diameter |-> mean_diameter,
   wire_diameter |-> wire_diameter,
   free_length   |-> free_length,
   num_coils     |-> num_coils,
   material      |-> material]

\* inside_diameter with the sign of the wire diameter slipped
inside_diameter_plus(s) == Add(Ret(s.mean_diameter), Ret(s.wire_diameter))

inside_diameter(s) == Sub(Ret(s.mean_diameter), Ret(s.wire_diameter))

outside_diameter(s) == Add(Ret(s.mean_diameter), Ret(s.wire_diameter))

spring_constant(s) ==
  LET num == Mul(shear_modulus(materials[s.material]),
                 Pow(Ret(s.wire_diameter), 4))
      den == Mul(Mul(Lit(8), Pow(Ret(s.mean_diameter), 3)), Ret(s.num_coils))
  IN  Div(num, den)

coil_pitch(s) == Div(Ret(s.free_length), Ret(s.num_coils))

\* rise_angle with the arguments of atan2 exchanged
rise_angle_swapped(s) ==
  Lift(atan2, Mul(Ret(pi), Ret(s.mean_diameter)), coil_pitch(s))

rise_angle(s) ==
  Lift(atan2, coil_pitch(s), Mul(Ret(pi), Ret(s.mean_diameter)))

solid_height(s) == Mul(Ret(s.wire_diameter), Add(Ret(s.num_coils), Lit(2)))

max_displacement(s) == Sub(Ret(s.free_length), solid_height(s))

wire_length(s) ==
  LET angle == rise_angle(s)
      c     == IF Raises(angle) THEN angle ELSE Ret(cos(angle.val))
  IN  Mul(Mul(Ret(pi), Ret(s.mean_diameter)),
          Add(Div(Ret(s.num_coils), c), Lit(2)))

max_force(s) ==
  Mul(spring_constant(s), Sub(Ret(s.free_length), solid_height(s)))

spring_index(s) == Div(Ret(s.mean_diameter), Ret(s.wire_diameter))

\* whal with the curvature fraction upside down
whal_inverted(s) ==
  LET C == spring_index(s)
  IN  Add(Div(Sub(Mul(Lit(4), C), Lit(4)), Sub(Mul(Lit(4), C), Lit(1))),
          Div(Ret(Dec(615, 0 - 3)), C))

whal(s) ==
  LET C == spring_index(s)
  IN  Add(Div(Sub(Mul(Lit(4), C), Lit(1)), Sub(Mul(Lit(4), C), Lit(4))),
          Div(Ret(Dec(615, 0 - 3)), C))

max_shear(s) ==
  Div(Mul(Mul(Mul(Lit(8), whal(s)), Ret(s.mean_diameter)), max_force(s)),
      Mul(Ret(pi), Pow(Ret(s.wire_diameter), 3)))

\* solve_diameter with the mean diameter squared instead of cubed
solve_diameter_square(mean_diameter, num_coils, k, material) ==
  LET num == Mul(Mul(Mul(Lit(8), Ret(k)), Ret(num_coils)),
                 Pow(Ret(mean_diameter), 2))
      den == shear_modulus(material)
  IN  PowQuarter(Div(num, den))

\* Spring.solve_diameter, a static method
solve_diameter(mean_diameter, num_coils, k, material) ==
  LET num == Mul(Mul(Mul(Lit(8), Ret(k)), Ret(num_coils)),
                 Pow(Ret(mean_diameter), 3))
      den == shear_modulus(material)
  IN  PowQuarter(Div(num, den))

-----------------------------------------------------------------------------
(* Spring.print_properties.  A printed line is kept as its format and the  *)
(* float it formats; the digits are not rendered.                          *)

Item(text, arg) == [text |-> text, arg |-> arg]

Line(text) == [text |-> text, val |-> Zero]

Header(name) ==
  IF name # << >>
  THEN <<Line("-------------------------------------"),
         Line("Spring: %s"),
         Line("-------------------------------------")>>
  ELSE << >>

\* The i-th print statement of the 'en' branch.
ItemEN(s, i) ==
  CASE i = 1 -> Item("Outer diameter       :%.3f in", Div(outside_diameter(s), Ret(inch)))
    [] i = 2 -> Item("Mean diameter        :%.3f in", Div(Ret(s.mean_diameter), Ret(inch)))
    [] i = 3 -> Item("Inside diameter      :%.3f in", Div(inside_diameter(s), Ret(inch)))
    [] i = 4 -> Item("Wire diameter        :%.3f in", Div(Ret(s.wire_diameter), Ret(inch)))
    [] i = 5 -> Item("Free length          :%.3f in", Div(Ret(s.free_length), Ret(inch)))
    [] i = 6 -> Item("Number of coils      :%.1f ", Ret(s.num_coils))
    [] i = 7 -> Item("Spring constant      :%.2e lbf/in",
              Mul(Div(spring_constant(s), Ret(lbf)), Ret(inch)))
    [] i = 8 -> Item("Spring index [5-15]  :%.1f", spring_index(s))
    [] i = 9 -> Item("Max force possible   :%.2e lbf", Div(max_force(s), Ret(lbf)))
    [] i = 10 -> Item("Max shear stress     :%.2e ksi", Div(max_shear(s), Ret(ksi)))
    [] i = 11 -> Item("Solid height         :%.3f in", Div(solid_height(s), Ret(inch)))
    [] i = 12 -> Item("Max displacement     :%.3f in", Div(max_displacement(s), Ret(inch)))
    [] i = 13 -> Item("Coil pitch           :%.3f in per coil ", Div(coil_pitch(s), Ret(inch)))
    [] i = 14 -> Item("Rise angle           :%.2f deg",
              Div(Mul(rise_angle(s), Lit(180)), Ret(pi)))
    [] i = 15 -> Item("Spring wire length   :%.3f in", Div(wire_length(s), Ret(inch)))

\* The i-th print statement of the 'si' branch.  It formats
\* self.outside_diameter and self.inside_diameter, the bound methods, not what
\* they return.
ItemSI(s, i) ==
  CASE i = 1 -> Item("Outer diameter       :%.3f m", Method)
    [] i = 2 -> Item("Mean diameter        :%.3f m", Ret(s.mean_diameter))
    [] i = 3 -> Item("Inside diameter      :%.3f m", Method)
    [] i = 4 -> Item("Wire diameter        :%.3f m", Ret(s.wire_diameter))
    [] i = 5 -> Item("Free length          :%.3f m", Ret(s.free_length))
    [] i = 6 -> Item("Number of coils      :%.1f ", Ret(s.num_coils))
    [] i = 7 -> Item("Spring constant      :%.2e N/m", spring_constant(s))
    [] i = 8 -> Item("Spring index  [5-15] :%.1f", spring_index(s))
    [] i = 9 -> Item("Max force possible   :%.2e N", max_force(s))
    [] i = 10 -> Item("Max shear stress     :%.2e Pa", max_shear(s))
    [] i = 11 -> Item("Solid height         :%.3f m", solid_height(s))
    [] i = 12 -> Item("Max displacement     :%.3f m", max_displacement(s))
    [] i = 13 -> Item("Coil pitch           :%.3f ", coil_pitch(s))
    [] i = 14 -> Item("Rise angle           :%.2f deg",
              Div(Mul(rise_angle(s), Lit(180)), Ret(pi)))
    [] i = 15 -> Item("Spring wire length   :%.3f m", wire_length(s))
    [] i = 16 -> Item("Shear Modulus        :%0.2e Pa",
              Div(shear_modulus(materials[s.material]), Ret(Dec(1, 3))))

\* The print statements of a branch from the i-th to the n-th, in turn: print
\* text % arg.  "%f" of anything but a number raises TypeError; an exception
\* ends the method with the lines printed so far.
RECURSIVE PrintItems(_, _, _, _, _)

\* the statement that prints it, and the statements after it
PrintItem(it, branch, s, i, n, printed) ==
  IF Raises(it.arg) THEN [out |-> printed, res |-> it.arg]
  ELSE IF it.arg.kind # "return"
       THEN [out |-> printed, res |-> Raise("TypeError")]
       ELSE PrintItems(branch, s, i + 1, n,
                       Append(printed, [text |-> it.text, val |-> it.arg.val]))

PrintItems(branch, s, i, n, printed) ==
  IF i > n THEN [out |-> printed, res |-> None]
  ELSE \* the statement is evaluated once
       CHOOSE r \in {PrintItem(it, branch, s, i, n, printed) :
                       it \in {IF branch = <<"e", "n">> THEN ItemEN(s, i)
                                                        ELSE ItemSI(s, i)}} : TRUE

print_properties(s, units, name) ==
  IF lower(units) \in {<<"e", "n">>, <<"s", "i">>}
  THEN PrintItems(lower(units), s, 1,
                  IF <<"e", "n">> = lower(units) THEN 15 ELSE 16, Header(name))
  ELSE [out |-> Append(Header(name), Line("Units should be either SI or EN")),
        res |-> None]

-----------------------------------------------------------------------------
(* The client's inputs                                                     *)

MaterialNames ==
  {STEEL, <<"S", "t", "e", "e", "l">>, <<"b", "r", "a", "s", "s">>}

\* (0.500-0.035)*u.inch and 0.035*u.inch, the self-test's spring
efundaMean == FMul(FSub(Dec(500, 0 - 3), Dec(35, 0 - 3)), inch)

efundaWire == FMul(Dec(35, 0 - 3), inch)

efundaLength == FMul(Float(1), inch)

\* 2.6*u.lbf/u.inch, the self-test's target rate
efundaRate == FDiv(FMul(Dec(26, 0 - 1), lbf), inch)

MeanDiameters == {Zero, efundaMean}

WireDiameters == {Zero, efundaWire, FMul(Dec(1, 0 - 1), inch), efundaMean}

FreeLengths == {Zero, efundaLength}

CoilCounts == {Float(0), Float(8)}

\* n_coils = 12 is the self-test's coil count for solve_diameter
DesignCoilCounts == CoilCounts \cup {Float(12)}

DesignDiameters ==
  MeanDiameters \cup {FNeg(efundaMean), FMul(Dec(25, 0 - 2), inch), inch}

Rates == {FNeg(efundaRate), Zero, efundaRate}

\* further target rates, in N/m
DesignRates == Rates \cup {Dec(1, 2), Dec(5, 3)}

\* 'SI' is the default and 'En' the self-test's selector
UnitNames == {<<"S", "I">>, <<"s", "i">>, <<"E", "n">>, <<"m", "k", "s">>}

SpringNames == {<< >>, <<"e", "f", "u", "n", "d", "a">>}

-----------------------------------------------------------------------------
(* The operations                                                          *)

NoCall ==
  [op |-> "none", self |-> 0, args |-> << >>, units |-> << >>, name |-> << >>,
   out |-> None]

Call(op, self, args, out) ==
  [op |-> op, self |-> self, args |-> args, units |-> << >>, name |-> << >>,
   out |-> out]

\* The history variables record only where a specification switches them on.
Design(on) ==
  [on |-> on, exists |-> FALSE, D |-> Zero, N |-> Zero, k |-> Zero, d |-> Zero,
   material |-> 0]

Memo(on) ==
  [on |-> on, set |-> FALSE, again |-> FALSE, call |-> NoCall, printed |-> << >>]

\* the same operation on the same object with the same arguments
SameCall(a, b) ==
  /\ a.op = b.op
  /\ a.self = b.self
  /\ a.args = b.args
  /\ a.units = b.units
  /\ a.name = b.name

\* design after a call of solve_diameter: the call, if it returned
Designed(call) ==
  IF design.on /\ call.out.kind = "return"
  THEN [on |-> TRUE, exists |-> TRUE, D |-> call.args[1], N |-> call.args[2],
        k |-> call.args[3], d |-> call.out.val, material |-> call.self]
  ELSE design

\* memo after a call: while it is empty, empty or this call; afterwards the
\* remembered call, marked once the same call has been made again
Remembered(call, printed) ==
  IF ~memo.on THEN {memo}
  ELSE IF ~memo.set
       THEN {memo, [memo EXCEPT !.set = TRUE, !.call = call, !.printed = printed]}
       ELSE {[memo EXCEPT !.again = @ \/ SameCall(call, memo.call)]}

InitProgram ==
  /\ materials = << >>
  /\ spring = NoSpring
  /\ last = NoCall
  /\ stdout = << >>

Init == InitProgram /\ design = Design(FALSE) /\ memo = Memo(FALSE)

\* Material(name)
NewMaterial ==
  \E name \in MaterialNames :
    /\ Len(materials) < MaxMaterials
    /\ materials' = Append(materials, MaterialInit(name))
    /\ stdout' = MaterialInitPrints(name)
    /\ last' = [Call("Material", Len(materials) + 1, << >>, Object)
                  EXCEPT !.name = name]
    /\ UNCHANGED <<spring, design, memo>>

\* Spring(mean_diameter, wire_diameter, free_length, num_coils, material).
\* The client constructs its Spring once: constructing another in its place
\* leads to no state that the first construction does not lead to.
Construct(D, d, L0, N, mat) ==
  /\ ~spring.exists
  /\ spring' = SpringInit(D, d, L0, N, mat)
  /\ stdout' = << >>
  /\ last' = Call("Spring", 0, <<D, d, L0, N>>, Object)
  /\ UNCHANGED <<materials, design, memo>>

NewSpring ==
  \E D \in MeanDiameters, d \in WireDiameters, L0 \in FreeLengths,
     N \in CoilCounts, mat \in 1..Len(materials) :
    Construct(D, d, L0, N, mat)

\* efunda = Spring((0.500-0.035)*u.inch, 0.035*u.inch, 1*u.inch, 8, steel)
NewSpringEfunda ==
  \E mat \in 1..Len(materials) :
    Construct(efundaMean, efundaWire, efundaLength, Float(8), mat)

\* Spring(mean_diameter, d_wire, free_length, n_coils, material) with the
\* wire diameter solve_diameter returned for that mean diameter, coil count
\* and material
NewSpringDesigned ==
  \E L0 \in FreeLengths :
    /\ design.exists
    /\ Construct(design.D, design.d, L0, design.N, design.material)

\* A method of the held Spring that prints nothing.  None of them assigns.
Query(op, out) ==
  /\ spring.exists
  /\ last' = Call(op, 0, << >>, out)
  /\ stdout' = << >>
  /\ memo' \in Remembered(last', stdout')
  /\ UNCHANGED <<materials, spring, design>>

InsideDiameter == Query("inside_diameter", inside_diameter(spring))

OutsideDiameter == Query("outside_diameter", outside_diameter(spring))

SpringConstant == Query("spring_constant", spring_constant(spring))

CoilPitch == Query("coil_pitch", coil_pitch(spring))

RiseAngle == Query("rise_angle", rise_angle(spring))

\* solid_height that adds the two end coils to self.num_coils in place
SolidHeightAssigns ==
  /\ spring.exists
  /\ spring' = [spring EXCEPT !.num_coils = FAdd(@, Float(2))]
  /\ last' = Call("solid_height", 0, << >>,
                  Mul(Ret(spring.wire_diameter), Ret(spring'.num_coils)))
  /\ stdout' = << >>
  /\ memo' \in Remembered(last', stdout')
  /\ UNCHANGED <<materials, design>>

SolidHeight == Query("solid_height", solid_height(spring))

MaxDisplacement == Query("max_displacement", max_displacement(spring))

WireLength == Query("wire_length", wire_length(spring))

MaxForce == Query("max_force", max_force(spring))

SpringIndex == Query("spring_index", spring_index(spring))

Whal == Query("whal", whal(spring))

MaxShear == Query("max_shear", max_shear(spring))

\* spring.print_properties(units, name)
PrintProperties ==
  \E units \in UnitNames, name \in SpringNames :
    /\ spring.exists
    /\ \E r \in {print_properties(spring, units, name)} :
         /\ last' = [Call("print_properties", 0, << >>, r.res)
                       EXCEPT !.units = units, !.name = name]
         /\ stdout' = r.out
    /\ memo' \in Remembered(last', stdout')
    /\ UNCHANGED <<materials, spring, design>>

\* materials[mat].shear_modulus()
ShearModulus ==
  \E mat \in 1..Len(materials) :
    /\ last' = Call("shear_modulus", mat, << >>, shear_modulus(materials[mat]))
    /\ stdout' = << >>
    /\ memo' \in Remembered(last', stdout')
    /\ UNCHANGED <<materials, spring, design>>

\* Spring.solve_diameter(mean_diameter, num_coils, spring_constant, material)
Solve(D, N, k, mat) ==
  /\ last' = Call("solve_diameter", mat, <<D, N, k>>,
                  solve_diameter(D, N, k, materials[mat]))
  /\ stdout' = << >>
  /\ design' = Designed(last')
  /\ UNCHANGED <<materials, spring, memo>>

SolveDiameter ==
  \E D \in MeanDiameters, N \in CoilCounts, k \in Rates,
     mat \in 1..Len(materials) :
    Solve(D, N, k, mat)

\* the same call in the design scenario, over wider inputs, until it returns
SolveDesign ==
  \E D \in DesignDiameters, N \in DesignCoilCounts, k \in DesignRates,
     mat \in 1..Len(materials) :
    /\ ~design.exists
    /\ Solve(D, N, k, mat)

\* The client constructs objects and calls any of their operations.
Next ==
  \/ NewMaterial
  \/ NewSpring
  \/ InsideDiameter
  \/ OutsideDiameter
  \/ SpringConstant
  \/ CoilPitch
  \/ RiseAngle
  \/ SolidHeight
  \/ MaxDisplacement
  \/ WireLength
  \/ MaxForce
  \/ SpringIndex
  \/ Whal
  \/ MaxShear
  \/ PrintProperties
  \/ ShearModulus
  \/ SolveDiameter

Spec == Init /\ [][Next]_vars

\* The design scenario of the self-test: solve for the wire diameter, build
\* the spring with it, ask for its spring constant.
InitDesign == InitProgram /\ design = Design(TRUE) /\ memo = Memo(FALSE)

NextDesign ==
  \/ NewMaterial
  \/ SolveDesign
  \/ NewSpringDesigned
  \/ SpringConstant

SpecDesign == InitDesign /\ [][NextDesign]_vars

\* The self-test's spring under any sequence of calls, one of them remembered.
InitMemo == InitProgram /\ design = Design(FALSE) /\ memo = Memo(TRUE)

NextMemo ==
  \/ NewMaterial
  \/ NewSpringEfunda
  \/ InsideDiameter
  \/ OutsideDiameter
  \/ SpringConstant
  \/ CoilPitch
  \/ RiseAngle
  \/ SolidHeight
  \/ MaxDisplacement
  \/ WireLength
  \/ MaxForce
  \/ SpringIndex
  \/ Whal
  \/ MaxShear
  \/ PrintProperties
  \/ ShearModulus

SpecMemo == InitMemo /\ [][NextMemo]_vars

-----------------------------------------------------------------------------
(* Properties.  The program defines no exception classes: where the         *)
(* documentation names an error (UnsupportedMaterial, InvalidGeometry,      *)
(* DomainError), any exception the call raises is taken for it.  Equalities *)
(* the documentation states "within floating tolerance" are stated with a   *)
(* bound in units of 2^-Prec, the relative error of one rounding.           *)

Positive(x) == x.m > 0

\* |a - b| <= c * 2^-Prec * |b|, computed exactly
Close(a, b, c) ==
  IF a.m = 0 \/ b.m = 0 THEN a.m = b.m
  ELSE LET lo == IF a.e <= b.e THEN a.e ELSE b.e
           sa == a.e - lo
           sb == b.e - lo
       IN  /\ sa <= Prec + 3
           /\ sb <= Prec + 3
           /\ Abs(a.m * 2^sa - b.m * 2^sb) * 2^Prec <= c * Abs(b.m) * 2^sb

\* |x - y| <= c * 2^-Prec * scale for scale > 0, computed exactly
Within(x, y, c, scale) ==
  LET ex == IF x.m = 0 THEN scale.e ELSE x.e
      ey == IF y.m = 0 THEN scale.e ELSE y.e
      m1 == IF ex <= ey THEN ex ELSE ey
      lo == IF m1 <= scale.e THEN m1 ELSE scale.e
  IN  Abs(x.m * 2^(ex - lo) - y.m * 2^(ey - lo)) * 2^Prec
        <= c * scale.m * 2^(scale.e - lo)

\* the i-th Material object is a steel
Steel(i) == i \in 1..Len(materials) /\ materials[i].attrs = MaterialAttrs

\* the geometry the documentation calls valid
ValidGeometry(D, d, L0, N) ==
  /\ Positive(D)
  /\ Positive(d)
  /\ FLt(d, D)
  /\ Positive(L0)
  /\ FLe(Float(1), N)

Valid(s) ==
  ValidGeometry(s.mean_diameter, s.wire_diameter, s.free_length, s.num_coils)

\* the self-test's spring, of a steel
Efunda ==
  /\ spring.exists
  /\ Steel(spring.material)
  /\ spring.mean_diameter = efundaMean
  /\ spring.wire_diameter = efundaWire
  /\ spring.free_length = efundaLength
  /\ spring.num_coils = Float(8)

\* C1: constructing a Material with a name that is not "steel", compared
\* case-insensitively, raises, and no Material object ever exists without its
\* youngs_modulus, poisson_ratio and density.
UnknownMaterialRaises ==
  /\ last.op = "Material" /\ lower(last.name) # STEEL => Raises(last.out)
  /\ \A i \in 1..Len(materials) : materials[i].attrs = MaterialAttrs

\* C2: constructing a Spring with D <= 0, d <= 0, L0 <= 0, N < 1 or d >= D
\* raises, and every Spring that exists has D > 0, d > 0, D > d, L0 > 0,
\* N >= 1.
InvalidGeometryRaises ==
  /\ last.op = "Spring"
       /\ ~ValidGeometry(last.args[1], last.args[2], last.args[3], last.args[4])
       => Raises(last.out)
  /\ spring.exists => Valid(spring)

\* the stored inputs at which the formula of a derived quantity is singular:
\* a zero divisor (d, D, N or 4C - 4), or atan2 and cos at a zero diameter
Singular(op, s) ==
  LET D0 == IsZero(s.mean_diameter)
      d0 == IsZero(s.wire_diameter)
      N0 == IsZero(s.num_coils)
      C1 == s.mean_diameter = s.wire_diameter
  IN  CASE op = "spring_constant" -> D0 \/ N0
        [] op = "coil_pitch"      -> N0
        [] op = "spring_index"    -> d0
        [] op = "whal"            -> d0 \/ D0 \/ C1
        [] op = "max_force"       -> D0 \/ N0
        [] op = "max_shear"       -> d0 \/ D0 \/ N0 \/ C1
        [] op = "wire_length"     -> D0 \/ N0
        [] OTHER                  -> FALSE

\* C3: a derived quantity of a Spring of a steel whose formula is singular for
\* the stored inputs (d = 0, D = 0, N = 0 or C = 1) raises; it returns no
\* number.
SingularRaises ==
  spring.exists /\ Steel(spring.material) /\ Singular(last.op, spring)
    => Raises(last.out)

\* the held Spring is the one designed: D, N and the material given to
\* solve_diameter, and the wire diameter it returned
BuiltAsDesigned ==
  /\ design.exists
  /\ spring.exists
  /\ spring.mean_diameter = design.D
  /\ spring.num_coils = design.N
  /\ spring.wire_diameter = design.d
  /\ spring.material = design.material
  /\ Steel(design.material)
  /\ Positive(design.D)
  /\ Positive(design.N)
  /\ Positive(design.k)

\* C4: for D > 0, N > 0, k > 0 and a steel, the Spring built with
\* d = solve_diameter(D, N, k, material) has spring_constant() equal to k, for
\* any free length, up to the roundings of the two computations: eleven of
\* them bear on the result, so the relative error is within 12 * 2^-Prec.
SolveDiameterInverts ==
  BuiltAsDesigned /\ last.op = "spring_constant"
    => last.out.kind = "return" /\ Close(last.out.val, design.k, 12)

SolveDiameterInvertsSeen ==
  /\ BuiltAsDesigned
  /\ last.op = "spring_constant"
  /\ design.D = efundaMean
  /\ design.N = Float(12)
  /\ design.k = efundaRate
  /\ Positive(spring.free_length)

\* C5: solve_diameter with a target rate <= 0, a coil count <= 0 or a mean
\* diameter <= 0 raises; it returns no wire diameter.
SolveDiameterRejects ==
  last.op = "solve_diameter" /\ Steel(last.self)
    /\ (~Positive(last.args[1]) \/ ~Positive(last.args[2])
          \/ ~Positive(last.args[3]))
    => Raises(last.out)

\* C6: under any sequence of the queries, print_properties and shear_modulus,
\* the Spring keeps the fields its constructor stored, every Material keeps
\* what its constructor left, and a call made again comes to what it came to
\* the first time, printing the same.
QueriesChangeNothing ==
  /\ spring.exists
       => spring = SpringInit(efundaMean, efundaWire, efundaLength, Float(8),
                              spring.material)
  /\ \A i \in 1..Len(materials) :
       \E name \in MaterialNames : materials[i] = MaterialInit(name)
  /\ memo.set /\ SameCall(last, memo.call)
       => last.out = memo.call.out /\ stdout = memo.printed

QueriesChangeNothingSeen ==
  /\ memo.set
  /\ memo.again
  /\ memo.call.op = "max_shear"
  /\ last.op = "max_shear"
  /\ Steel(spring.material)

\* G = E / (2 (1 + nu)) of the material of the held spring
RefG ==
  LET mat == materials[spring.material]
  IN  FDiv(mat.youngs_modulus, FMul(Float(2), FAdd(Float(1), mat.poisson_ratio)))

\* G d^4 / (8 D^3 N)
RefRate ==
  FDiv(FMul(RefG, PowInt(spring.wire_diameter, 4)),
       FMul(FMul(Float(8), PowInt(spring.mean_diameter, 3)), spring.num_coils))

\* d (N + 2)
RefSolid == FMul(spring.wire_diameter, FAdd(spring.num_coils, Float(2)))

\* L0 - d (N + 2)
RefTravel == FSub(spring.free_length, RefSolid)

\* (4C - 1) / (4C - 4) + 0.615 / C for C = D / d
RefWahl ==
  LET C == FDiv(spring.mean_diameter, spring.wire_diameter)
  IN  FAdd(FDiv(FSub(FMul(Float(4), C), Float(1)),
                FSub(FMul(Float(4), C), Float(4))),
           FDiv(Dec(615, 0 - 3), C))

\* 8 Wahl D (k max_displacement) / (pi d^3)
RefShear ==
  FDiv(FMul(FMul(FMul(Float(8), RefWahl), spring.mean_diameter),
            FMul(RefRate, RefTravel)),
       FMul(pi, PowInt(spring.wire_diameter, 3)))

\* C7: for the steel spring with D = 0.465 in, d = 0.035 in, L0 = 1 in, N = 8:
\* spring_index() is 465/35, solid_height() is d (N + 2) and 0.35 in,
\* max_displacement() is L0 - solid_height and 0.65 in, each decimal value up
\* to the roundings of the inputs and of the computation (within 8 * 2^-Prec),
\* and spring_constant() and max_shear() are the reference formulas
\* G d^4 / (8 D^3 N) and 8 Wahl D (k max_displacement) / (pi d^3).
EfundaValues ==
  Efunda =>
    /\ last.op = "spring_index"
         => last.out.kind = "return" /\ Close(last.out.val, Ratio(465, 35), 8)
    /\ last.op = "solid_height"
         => /\ last.out = Ret(RefSolid)
            /\ Close(last.out.val, FMul(Dec(35, 0 - 2), inch), 8)
    /\ last.op = "max_displacement"
         => /\ last.out = Ret(RefTravel)
            /\ Close(last.out.val, FMul(Dec(65, 0 - 2), inch), 8)
    /\ last.op = "spring_constant" => last.out = Ret(RefRate)
    /\ last.op = "max_shear" => last.out = Ret(RefShear)

EfundaValuesSeen == Efunda /\ last.op = "max_shear" /\ last.out.kind = "return"

\* C8: for a valid geometry, inside_diameter() is D - d and positive,
\* outside_diameter() is D + d, and outside_diameter() - inside_diameter() is
\* 2 d up to the roundings of the sum and of the two differences: within
\* 3 * 2^-Prec * (D + d).
DiametersDifferByTwoWires ==
  spring.exists /\ Valid(spring) =>
    /\ last.op = "outside_diameter"
         => last.out = Ret(FAdd(spring.mean_diameter, spring.wire_diameter))
    /\ last.op = "inside_diameter"
         => /\ last.out = Ret(FSub(spring.mean_diameter, spring.wire_diameter))
            /\ Positive(last.out.val)
            /\ LET outer == outside_diameter(spring)
               IN  /\ outer.kind = "return"
                   /\ Within(FSub(outer.val, last.out.val),
                             FMul(Float(2), spring.wire_diameter), 3,
                             FAdd(spring.mean_diameter, spring.wire_diameter))

DiametersDifferByTwoWiresSeen ==
  /\ spring.exists
  /\ Valid(spring)
  /\ last.op = "inside_diameter"
  /\ spring.wire_diameter # efundaWire

UnitsMessage == Line("Units should be either SI or EN")

\* C9: for a valid Spring of a steel, print_properties with the selector 'si'
\* or 'en' in any case raises nothing, and with any other selector prints the
\* 'Units should be either SI or EN' message and no quantity.
PrintPropertiesCompletes ==
  spring.exists /\ Valid(spring) /\ Steel(spring.material)
    /\ last.op = "print_properties"
    => /\ ~Raises(last.out)
       /\ lower(last.units) \notin {<<"s", "i">>, <<"e", "n">>}
            => stdout = Append(Header(last.name), UnitsMessage)

\* a Spring with zero free length, N > 0 and D > 0
ZeroPitch ==
  /\ spring.exists
  /\ IsZero(spring.free_length)
  /\ Positive(spring.num_coils)
  /\ Positive(spring.mean_diameter)

\* C10: for a Spring with free length 0, N > 0 and D > 0, rise_angle() returns
\* 0 and wire_length() returns pi D (N + 2).
ZeroPitchIsFlat ==
  ZeroPitch =>
    /\ last.op = "rise_angle" => last.out = Ret(Zero)
    /\ last.op = "wire_length"
         => last.out = Ret(FMul(FMul(pi, spring.mean_diameter),
                                FAdd(spring.num_coils, Float(2))))

ZeroPitchIsFlatSeen == ZeroPitch /\ last.op = "wire_length"

====
